---- MODULE Spec2Model ----
(***************************************************************************)
(* Text layout of satori (src/src/text/index.ts, buildTextNodes) and its   *)
(* measurement cache (src/unnamed/part_000, genMeasurer).                  *)
(*                                                                         *)
(* A character is a one-character string, a word and a line text are       *)
(* sequences of characters.  Indices that the source keeps 0-based         *)
(* (run.start, run.end, the reordered indices, line numbers, the word      *)
(* index i) are 0-based here too; sequences themselves are 1-based, so     *)
(* the source's a[k] is a[k + 1] here.                                     *)
(***************************************************************************)
EXTENDS Integers, Sequences, FiniteSets, TLC

VARIABLES
    parentStyle,        \* textAlign, textFit, maxFontSize, fontSize, letterSpacing, textDecorationLine (lines 88-100)
    preprocessed,       \* words, requiredBreaks, allowSoftWrap, lineLimit (lines 103-112)
    lineWidths,         \* line 147
    baselines,          \* line 148
    lineSegmentNumber,  \* line 149
    placedSegments,     \* line 150
    finalFontSize,      \* line 488
    measuredTextSize,   \* line 489
    engine,             \* line 122: the font size the current engine is bound to
    pc,                 \* position of the generator buildTextNodes
    flowFrame,          \* the activation record of flow() while it runs step by step
    closedLines,        \* history: the words of every line closed by the running flow()
    lastCall,           \* history: the last invocation of the measure callback
    history,            \* history: arguments and outcome of every measure invocation
    rendered,           \* what the render loop computed for each placed segment
    cache,              \* part_000 line 12: the measurer's cache, a set of <<key, width>> entries
    engineLog,          \* history: the triples engine.measure was consulted with, in order
    measureLog,         \* history: every measureGrapheme call, its triple and its result
    runsCall,           \* history: the last call of getRuns, its arguments and result
    search,             \* the activation record of the measure callback while it runs step by step
    shapeCall           \* history: the last shaping of given runs and reordered indices, and its segments

layoutVars == <<parentStyle, preprocessed, lineWidths, baselines, lineSegmentNumber,
                placedSegments, finalFontSize, measuredTextSize, engine, pc,
                flowFrame, closedLines, lastCall, history, rendered>>

unitVars == <<cache, engineLog, measureLog, runsCall, search, shapeCall>>

vars == <<parentStyle, preprocessed, lineWidths, baselines, lineSegmentNumber,
          placedSegments, finalFontSize, measuredTextSize, engine, pc,
          flowFrame, closedLines, lastCall, history, rendered,
          cache, engineLog, measureLog, runsCall, search, shapeCall>>

(***************************************************************************)
(* Bounds of the model.                                                    *)
(***************************************************************************)
MaxWords == 3
MaxCalls == 2
MaxLineLength == 3
MaxMeasures == 3

(***************************************************************************)
(* Sequence helpers.                                                       *)
(***************************************************************************)
Max(a, b) == IF a > b THEN a ELSE b

RECURSIVE SumSeq(_)
SumSeq(s) == IF Len(s) = 0 THEN 0 ELSE Head(s) + SumSeq(Tail(s))

RECURSIVE MaxSeq(_)
MaxSeq(s) == IF Len(s) = 0 THEN 0 ELSE Max(Head(s), MaxSeq(Tail(s)))

\* lineWords.join('') (line 170)
RECURSIVE Join(_)
Join(ws) == IF Len(ws) = 0 THEN <<>> ELSE Head(ws) \o Join(Tail(ws))

\* text.slice(start, end) with 0-based start and end (line 194)
Slice(text, start, end) == SubSeq(text, start + 1, end)

\* The element of a singleton set {e}: { F(v) : v \in {e} } names the value of e
\* as v and computes it once.
TheValue(S) == CHOOSE x \in S : TRUE

(***************************************************************************)
(* The characters of the model and the collaborators' answers for them.    *)
(***************************************************************************)
\* ',.!?:-@)>]}%#' (line 385)
PunctuationSet == {",", ".", "!", "?", ":", "-", "@", ")", ">", "]", "}", "%", "#"}

RTLChars == {"x", "y"}
NeutralChars == PunctuationSet \cup {"E"}
\* graphemeImages (line 83): the graphemes drawn as inline images
graphemeImages == {<<"E">>}

\* engine.measure(grapheme, {fontSize, letterSpacing}): "z" stands for a glyph
\* the engine cannot measure (fallback width 0)
EngineMeasure(grapheme, size, spacing) ==
    IF grapheme = "z" THEN 0 ELSE size + spacing

IsRTLText(text) ==
    \E k \in 1..Len(text) :
        /\ text[k] \in RTLChars
        /\ \A j \in 1..(k - 1) : text[j] \in NeutralChars

\* useEngine.baseline(text) of the engine bound to font size `size`
EngineBaseline(text, size) ==
    IF IsRTLText(text) THEN size + (size \div 10) ELSE size

\* useEngine.height(text) of the engine bound to font size `size`
EngineHeight(text, size) ==
    IF IsRTLText(text) THEN size + (size \div 2) ELSE size + (size \div 5)

(***************************************************************************)
(* bidi-js: embedding levels (paragraph level from the first strong        *)
(* character, neutrals resolved by their neighbours) and the reordered     *)
(* indices (from the highest level down to 1, every maximal stretch of     *)
(* characters at that level or higher is reversed).                        *)
(***************************************************************************)
CharClass(c) == IF c \in RTLChars THEN "R" ELSE IF c \in NeutralChars THEN "N" ELSE "L"

ParagraphLevel(text) == IF IsRTLText(text) THEN 1 ELSE 0

ResolvedDirection(text, k) ==
    LET pdir   == IF ParagraphLevel(text) = 1 THEN "R" ELSE "L"
        before == {j \in 1..(k - 1) : CharClass(text[j]) # "N"}
        after  == {j \in (k + 1)..Len(text) : CharClass(text[j]) # "N"}
        l == IF before = {} THEN pdir
             ELSE CharClass(text[CHOOSE j \in before : \A m \in before : m <= j])
        r == IF after = {} THEN pdir
             ELSE CharClass(text[CHOOSE j \in after : \A m \in after : m >= j])
    IN  IF CharClass(text[k]) # "N" THEN CharClass(text[k])
        ELSE IF l = r THEN l ELSE pdir

\* bidi.getEmbeddingLevels(lineText).levels (line 173)
getEmbeddingLevels(text) ==
    [k \in 1..Len(text) |->
        LET d == ResolvedDirection(text, k)
        IN  IF ParagraphLevel(text) = 0
            THEN (IF d = "L" THEN 0 ELSE 1)
            ELSE (IF d = "R" THEN 1 ELSE 2)]

ReverseAtLevel(indices, levels, lvl) ==
    [k \in 1..Len(indices) |->
        IF levels[k] < lvl THEN indices[k]
        ELSE LET a == CHOOSE j \in 1..k :
                        /\ \A m \in j..k : levels[m] >= lvl
                        /\ (j = 1 \/ levels[j - 1] < lvl)
                 b == CHOOSE j \in k..Len(indices) :
                        /\ \A m \in k..j : levels[m] >= lvl
                        /\ (j = Len(indices) \/ levels[j + 1] < lvl)
             IN  indices[a + b - k]]

RECURSIVE ReorderFrom(_, _, _)
ReorderFrom(indices, levels, lvl) ==
    IF lvl < 1 THEN indices
    ELSE ReorderFrom(ReverseAtLevel(indices, levels, lvl), levels, lvl - 1)

\* bidi.getReorderedIndices(lineText, embeddingLevels) (line 239): 0-based indices
getReorderedIndices(text, levels) ==
    IF Len(levels) # Len(text) THEN [k \in 1..Len(text) |-> k - 1]
    ELSE ReorderFrom([k \in 1..Len(text) |-> k - 1], levels, MaxSeq(levels))

(***************************************************************************)
(* getRuns (lines 41-66).                                                  *)
(***************************************************************************)
\* a scan that forgets to flush the last run
RECURSIVE getRunsLoopNoFlush(_, _, _, _, _)
getRunsLoopNoFlush(levelsArray, i, currentLevel, startIndex, runs) ==
    IF i >= Len(levelsArray)
    THEN runs
    ELSE IF levelsArray[i + 1] # currentLevel
         THEN getRunsLoopNoFlush(levelsArray, i + 1, levelsArray[i + 1], i,
                          Append(runs, [start |-> startIndex, end |-> i, level |-> currentLevel]))
         ELSE getRunsLoopNoFlush(levelsArray, i + 1, currentLevel, startIndex, runs)

RECURSIVE getRunsLoop(_, _, _, _, _)
getRunsLoop(levelsArray, i, currentLevel, startIndex, runs) ==
    IF i >= Len(levelsArray)
    THEN Append(runs, [start |-> startIndex, end |-> Len(levelsArray), level |-> currentLevel])
    ELSE IF levelsArray[i + 1] # currentLevel
         THEN getRunsLoop(levelsArray, i + 1, levelsArray[i + 1], i,
                          Append(runs, [start |-> startIndex, end |-> i, level |-> currentLevel]))
         ELSE getRunsLoop(levelsArray, i + 1, currentLevel, startIndex, runs)

getRuns(text, levels) ==
    IF Len(levels) = 0
    THEN <<[start |-> 0, end |-> Len(text), level |-> 0]>>
    ELSE IF Len(text) # Len(levels)
    THEN <<[start |-> 0, end |-> Len(text), level |-> 0]>>
    ELSE getRunsLoop(levels, 1, levels[1], 0, <<>>)

(***************************************************************************)
(* genMeasurer (src/unnamed/part_000).                                     *)
(***************************************************************************)
isImage(grapheme) == <<grapheme>> \in graphemeImages

\* measureGrapheme (part_000 lines 14-24): the cache returns what the engine
\* returned the first time, and the engine is a function of the key
measureGrapheme(grapheme, size, spacing) == EngineMeasure(grapheme, size, spacing)

RECURSIVE measureGraphemeArray(_, _, _)
measureGraphemeArray(graphemes, size, spacing) ==
    IF Len(graphemes) = 0 THEN 0
    ELSE (IF isImage(Head(graphemes)) THEN size
          ELSE measureGrapheme(Head(graphemes), size, spacing))
         + measureGraphemeArray(Tail(graphemes), size, spacing)

\* segment(text, 'grapheme'): every character is one grapheme
measureText(text, size, spacing) == measureGraphemeArray(text, size, spacing)

\* String(n) of an integer: decimal digits, '-' before a negative one
DigitChars == <<"0", "1", "2", "3", "4", "5", "6", "7", "8", "9">>

RECURSIVE DigitsOf(_)
DigitsOf(n) ==
    IF n < 10 THEN <<DigitChars[n + 1]>>
    ELSE Append(DigitsOf(n \div 10), DigitChars[(n % 10) + 1])

NumberToString(n) == IF n < 0 THEN <<"-">> \o DigitsOf(0 - n) ELSE DigitsOf(n)

\* part_000 line 15: `${grapheme}-${fontSize}-${letterSpacing}`, as a sequence
\* of characters
cacheKey(grapheme, size, spacing) ==
    <<grapheme>> \o <<"-">> \o NumberToString(size) \o <<"-">> \o NumberToString(spacing)

\* Map.has, Map.get and Map.set on a set of <<key, value>> entries
cacheHas(c, key) == \E e \in c : e[1] = key
cacheGet(c, key) == (CHOOSE e \in c : e[1] = key)[2]
cacheSet(c, key, value) == {e \in c : e[1] # key} \cup {<<key, value>>}

\* a lookup that tests the cached value for truth, so that a stored 0 misses
measureGraphemeTruthyLookup(c, grapheme, size, spacing) ==
    LET key == cacheKey(grapheme, size, spacing)
    IN  IF cacheHas(c, key) /\ cacheGet(c, key) # 0
        THEN [width |-> cacheGet(c, key), cache |-> c, consulted |-> FALSE]
        ELSE [width |-> EngineMeasure(grapheme, size, spacing),
              cache |-> cacheSet(c, key, EngineMeasure(grapheme, size, spacing)),
              consulted |-> TRUE]

\* part_000 lines 14-24 with the cache c: the width returned, the cache after
\* the call, and whether the engine was consulted
measureGraphemeWithCache(c, grapheme, size, spacing) ==
    LET key == cacheKey(grapheme, size, spacing)
    IN  IF cacheHas(c, key)
        THEN [width |-> cacheGet(c, key), cache |-> c, consulted |-> FALSE]
        ELSE [width |-> EngineMeasure(grapheme, size, spacing),
              cache |-> cacheSet(c, key, EngineMeasure(grapheme, size, spacing)),
              consulted |-> TRUE]

(***************************************************************************)
(* The values buildTextNodes captures once and its closures read.          *)
(***************************************************************************)
\* const { fontSize, letterSpacing, ... } = parentStyle (lines 88-100)
fontSize == parentStyle.fontSize
letterSpacing == parentStyle.letterSpacing
\* const { words, requiredBreaks, allowSoftWrap, lineLimit } = preprocess(...) (lines 103-112)
words == preprocessed.words
requiredBreaks == preprocessed.requiredBreaks
allowSoftWrap == preprocessed.allowSoftWrap
lineLimit == preprocessed.lineLimit

(***************************************************************************)
(* shapeLineWithBidiRuns (lines 161-342) and its helpers (lines 451-485).  *)
(***************************************************************************)
RECURSIVE collectSubstringLoop(_, _, _, _, _, _)
collectSubstringLoop(runText, reorderedIndices, i, end, offsetInLine, result) ==
    IF i >= end THEN result
    ELSE LET idx == reorderedIndices[i + 1]
         IN  collectSubstringLoop(runText, reorderedIndices, i + 1, end, offsetInLine,
                IF idx >= offsetInLine /\ idx < offsetInLine + Len(runText)
                THEN Append(result, runText[(idx - offsetInLine) + 1])
                ELSE result)

\* a collection that keeps the run's text in logical order
collectSubstringLogical(runText, reorderedIndices, start, end, offsetInLine) ==
    runText

collectSubstring(runText, reorderedIndices, start, end, offsetInLine) ==
    collectSubstringLoop(runText, reorderedIndices, start, end, offsetInLine, <<>>)

RECURSIVE segStartForSegment(_, _)
segStartForSegment(shapedRunSegments, segIndex) ==
    IF segIndex <= 0 THEN 0
    ELSE segStartForSegment(shapedRunSegments, segIndex - 1)
         + Len(shapedRunSegments[segIndex].text)

\* lines 193-213: one shaped segment per run, measured at the captured fontSize
ShapeRun(lineText, run) ==
    LET runSubstring == Slice(lineText, run.start, run.end)
        image == runSubstring \in graphemeImages
    IN  [text    |-> runSubstring,
         width   |-> IF image THEN fontSize
                     ELSE measureText(runSubstring, fontSize, letterSpacing),
         isRTL   |-> (run.level % 2) = 1,
         isImage |-> image]

\* a run map that gives every character to the first run
BuildRunMapFirstRun(shapedRunSegments, idx) ==
    [k \in 1..SumSeq([r \in 1..Len(shapedRunSegments) |->
                         Len(shapedRunSegments[r].text)]) |-> 0]

\* lines 245-253: the run index of every character index
RECURSIVE BuildRunMap(_, _)
BuildRunMap(shapedRunSegments, idx) ==
    IF idx >= Len(shapedRunSegments) THEN <<>>
    ELSE [k \in 1..Len(shapedRunSegments[idx + 1].text) |-> idx]
         \o BuildRunMap(shapedRunSegments, idx + 1)

\* the object pushed at lines 264-286 and 292-314
VisualSegment(shapedRunSegments, reordered, currentRunIndex, runStart, end) ==
    LET t == collectSubstring(shapedRunSegments[currentRunIndex + 1].text, reordered,
                              runStart, end,
                              segStartForSegment(shapedRunSegments, currentRunIndex))
    IN  [text    |-> t,
         x       |-> 0,
         width   |-> measureText(t, fontSize, letterSpacing),
         isImage |-> shapedRunSegments[currentRunIndex + 1].isImage,
         isRTL   |-> shapedRunSegments[currentRunIndex + 1].isRTL]

\* lines 257-314: group consecutive reordered indices of the same run
RECURSIVE GroupLoop(_, _, _, _, _, _, _)
GroupLoop(shapedRunSegments, reordered, runMap, i, currentRunIndex, runStart, out) ==
    IF i >= Len(reordered)
    THEN Append(out, VisualSegment(shapedRunSegments, reordered, currentRunIndex,
                                   runStart, Len(reordered)))
    ELSE LET segIndex == runMap[reordered[i + 1] + 1]
         IN  IF segIndex # currentRunIndex
             THEN GroupLoop(shapedRunSegments, reordered, runMap, i + 1, segIndex, i,
                            Append(out, VisualSegment(shapedRunSegments, reordered,
                                                      currentRunIndex, runStart, i)))
             ELSE GroupLoop(shapedRunSegments, reordered, runMap, i + 1,
                            currentRunIndex, runStart, out)

\* a placement that never advances the cursor
RECURSIVE PlaceFromFixedCursor(_, _)
PlaceFromFixedCursor(segs, cursorX) ==
    IF Len(segs) = 0 THEN <<>>
    ELSE <<[Head(segs) EXCEPT !.x = cursorX]>>
         \o PlaceFromFixedCursor(Tail(segs), cursorX)

\* lines 319-323: seg.x = cursorX; cursorX += seg.width
RECURSIVE PlaceFrom(_, _)
PlaceFrom(segs, cursorX) ==
    IF Len(segs) = 0 THEN <<>>
    ELSE <<[Head(segs) EXCEPT !.x = cursorX]>>
         \o PlaceFrom(Tail(segs), cursorX + Head(segs).width)

\* The result of shaping one line: what it returns (line 341), the segments it
\* pushes onto placedSegments (lines 328-339), and whether it threw instead.
\* With an empty lineText the reordered indices are empty, runMap[reordered[0]]
\* is undefined and line 294 reads shapedRunSegments[undefined].text: a TypeError.
shapeLineWithBidiRuns(lineWords, xOffset, currentLine, currentHeight, containerWidth, useEngine) ==
    LET lineText == Join(lineWords)
        embeddingLevels == getEmbeddingLevels(lineText)
        runs == getRuns(lineText, embeddingLevels)
        shapedRunSegments == [r \in 1..Len(runs) |-> ShapeRun(lineText, runs[r])]
        asc == [r \in 1..Len(runs) |-> EngineBaseline(shapedRunSegments[r].text, useEngine)]
        desc == [r \in 1..Len(runs) |->
                    EngineHeight(shapedRunSegments[r].text, useEngine) - asc[r]]
        maxAscent == MaxSeq(asc)
        maxDescent == MaxSeq(desc)
        reordered == getReorderedIndices(lineText, embeddingLevels)
        runMap == BuildRunMap(shapedRunSegments, 0)
    IN  IF Len(reordered) = 0
        THEN [thrown |-> TRUE, runs |-> runs, segments |-> <<>>, width |-> 0,
              lineHeight |-> maxAscent + maxDescent, baseline |-> maxAscent]
        ELSE LET shapedSegmentsForLine ==
                     PlaceFrom(GroupLoop(shapedRunSegments, reordered, runMap, 0,
                                         runMap[reordered[1] + 1], 0, <<>>), xOffset)
                 cursorX == xOffset + SumSeq([k \in 1..Len(shapedSegmentsForLine) |->
                                                 shapedSegmentsForLine[k].width])
             IN  [thrown |-> FALSE,
                  runs |-> runs,
                  segments |->
                      [k \in 1..Len(shapedSegmentsForLine) |->
                          [text      |-> shapedSegmentsForLine[k].text,
                           x         |-> shapedSegmentsForLine[k].x,
                           y         |-> currentHeight,
                           width     |-> shapedSegmentsForLine[k].width,
                           line      |-> currentLine,
                           lineIndex |-> k - 1,
                           isImage   |-> shapedSegmentsForLine[k].isImage]],
                  width |-> cursorX - xOffset,
                  lineHeight |-> maxAscent + maxDescent,
                  baseline |-> maxAscent]

(***************************************************************************)
(* flow (lines 348-448).  A frame holds flow's parameters and locals; acc  *)
(* holds the four accumulators flow shares with the render loop.           *)
(***************************************************************************)
Accumulators == [lineWidths |-> lineWidths, baselines |-> baselines,
                 lineSegmentNumber |-> lineSegmentNumber,
                 placedSegments |-> placedSegments]

\* lines 147-158: the accumulators as declared
InitialAccumulators == [lineWidths |-> <<>>, baselines |-> <<>>,
                        lineSegmentNumber |-> <<>>, placedSegments |-> <<>>]

\* a reset that forgets to clear placedSegments
flowResetKeepSegments(acc) ==
    [lineWidths |-> <<>>, baselines |-> <<>>, lineSegmentNumber |-> <<>>,
     placedSegments |-> acc.placedSegments]

\* lines 354-357
flowReset(acc) == [lineWidths |-> <<>>, baselines |-> <<>>,
                   lineSegmentNumber |-> <<>>, placedSegments |-> <<>>]

IdleFrame == [pc |-> "idle"]

\* lines 348-366: parameters and locals on entry
flowEnter(cw, size, useEngine) ==
    [pc |-> "loop", containerWidth |-> cw, fontSize |-> size, useEngine |-> useEngine,
     i |-> 0, lines |-> 0, maxWidth |-> 0, totalHeight |-> 0,
     currentLineWords |-> <<>>, currentLineWidth |-> 0,
     currentLineAscent |-> 0, currentLineBaseline |-> 0]

\* lines 369-375: flow's own fontSize parameter
measureWord(word, size) ==
    IF word \in graphemeImages THEN size
    ELSE measureText(word, size, letterSpacing)

\* line 385
allowedToPutAtBeginning(word) == word[1] \notin PunctuationSet

\* lines 386-390
willWrap(fr, word, w) ==
    /\ fr.i # 0
    /\ allowedToPutAtBeginning(word)
    /\ fr.currentLineWidth + w > fr.containerWidth
    /\ allowSoftWrap

\* a loop guard without the line limit
flowGuardNoLimit(fr) == fr.i < Len(words)

\* line 378
flowGuard(fr) == fr.i < Len(words) /\ fr.lines < lineLimit

\* a line close that overwrites the total height with the line's height
recordLineHeightOverwritten(fr, acc, lineResult) ==
    [frame |-> [fr EXCEPT !.totalHeight = lineResult.lineHeight,
                          !.maxWidth = Max(fr.maxWidth, lineResult.width),
                          !.lines = fr.lines + 1],
     acc   |-> [lineWidths |-> Append(acc.lineWidths, lineResult.width),
                baselines |-> Append(acc.baselines, lineResult.baseline),
                lineSegmentNumber |-> Append(acc.lineSegmentNumber, Len(fr.currentLineWords)),
                placedSegments |-> acc.placedSegments \o lineResult.segments]]

\* a line close that forgets to push the baseline
recordLineNoBaseline(fr, acc, lineResult) ==
    [frame |-> [fr EXCEPT !.totalHeight = fr.totalHeight + lineResult.lineHeight,
                          !.maxWidth = Max(fr.maxWidth, lineResult.width),
                          !.lines = fr.lines + 1],
     acc   |-> [lineWidths |-> Append(acc.lineWidths, lineResult.width),
                baselines |-> acc.baselines,
                lineSegmentNumber |-> Append(acc.lineSegmentNumber, Len(fr.currentLineWords)),
                placedSegments |-> acc.placedSegments \o lineResult.segments]]

\* lines 402-410 and 439-444: record the shaped line
recordLine(fr, acc, lineResult) ==
    [frame |-> [fr EXCEPT !.totalHeight = fr.totalHeight + lineResult.lineHeight,
                          !.maxWidth = Max(fr.maxWidth, lineResult.width),
                          !.lines = fr.lines + 1],
     acc   |-> [lineWidths |-> Append(acc.lineWidths, lineResult.width),
                baselines |-> Append(acc.baselines, lineResult.baseline),
                lineSegmentNumber |-> Append(acc.lineSegmentNumber, Len(fr.currentLineWords)),
                placedSegments |-> acc.placedSegments \o lineResult.segments]]

\* lines 412-420: the line that follows a break
startNewLine(fr, word, w, forcedBreak) ==
    LET asc == EngineBaseline(word, fr.useEngine)
        ascent == IF ~forcedBreak /\ w > 0 /\ asc > fr.currentLineAscent
                  THEN asc ELSE fr.currentLineAscent
    IN  [fr EXCEPT !.currentLineWords = IF forcedBreak THEN <<>> ELSE <<word>>,
                   !.currentLineWidth = IF forcedBreak THEN 0 ELSE w,
                   !.currentLineAscent = ascent,
                   !.currentLineBaseline = IF ~forcedBreak /\ w > 0 THEN ascent
                                           ELSE fr.currentLineBaseline]

\* lines 392-420: the break branch, given the shaped line
closeLine(fr, acc, word, w, forcedBreak, lineResult) ==
    IF lineResult.thrown
    THEN [frame |-> [fr EXCEPT !.pc = "thrown"], acc |-> acc]
    ELSE TheValue({[frame |-> [startNewLine(rec.frame, word, w, forcedBreak)
                                  EXCEPT !.i = fr.i + 1],
                    acc   |-> rec.acc] :
                   rec \in {recordLine(fr, acc, lineResult)}})

\* lines 379-426: one iteration of the word loop
flowIteration(fr, acc) ==
    LET word == words[fr.i + 1]
        forcedBreak == requiredBreaks[fr.i + 1]
        w == measureWord(word, fr.fontSize)
    IN  IF forcedBreak \/ willWrap(fr, word, w)
        THEN TheValue({closeLine(fr, acc, word, w, forcedBreak, lineResult) :
                 lineResult \in {shapeLineWithBidiRuns(fr.currentLineWords, 0, fr.lines,
                                     fr.totalHeight, fr.containerWidth, fr.useEngine)}})
        ELSE [frame |-> [fr EXCEPT !.currentLineWords = Append(fr.currentLineWords, word),
                                   !.currentLineWidth = fr.currentLineWidth + w,
                                   !.i = fr.i + 1],
              acc   |-> acc]

\* line 430
flushGuard(fr) == Len(fr.currentLineWords) # 0 /\ fr.lines < lineLimit

\* lines 431-444: the flush branch, given the shaped line
flushLine(fr, acc, lineResult) ==
    IF lineResult.thrown
    THEN [frame |-> [fr EXCEPT !.pc = "thrown"], acc |-> acc]
    ELSE TheValue({[frame |-> [rec.frame EXCEPT !.pc = "returned"], acc |-> rec.acc] :
                   rec \in {recordLine(fr, acc, lineResult)}})

\* lines 429-447: the final flush and the return
flowFlush(fr, acc) ==
    IF flushGuard(fr)
    THEN TheValue({flushLine(fr, acc, lineResult) :
             lineResult \in {shapeLineWithBidiRuns(fr.currentLineWords, 0, fr.lines,
                                 fr.totalHeight, fr.containerWidth, fr.useEngine)}})
    ELSE [frame |-> [fr EXCEPT !.pc = "returned"], acc |-> acc]

\* flow run to its end: the frame flow returns from (width = maxWidth,
\* height = totalHeight, line 447) or throws from, and the accumulators it leaves
RECURSIVE flowRun(_)
flowRun(st) ==
    IF flowGuard(st.frame)
    THEN TheValue({IF n.frame.pc = "thrown" THEN n ELSE flowRun(n) :
                   n \in {flowIteration(st.frame, st.acc)}})
    ELSE flowFlush(st.frame, st.acc)

flow(cw, size, useEngine, acc) ==
    TheValue({flowRun(st) :
              st \in {[frame |-> flowEnter(cw, size, useEngine), acc |-> flowReset(acc)]}})

(***************************************************************************)
(* The measure callback (lines 491-533).                                   *)
(***************************************************************************)
textFit == parentStyle.textFit
maxFontSize == parentStyle.maxFontSize
textAlign == parentStyle.textAlign

\* lines 495-497; an absent maxFontSize is 0 here, and 0 || 120 is 120 as well
searchStart ==
    [testMinFontSize |-> 10,
     testMaxFontSize |-> IF maxFontSize # 0 THEN maxFontSize ELSE 120,
     bestFitFontSize |-> 10]

\* line 500
testFontSizeOf(b) == (b.testMinFontSize + b.testMaxFontSize) \div 2

\* a narrowing that also remembers a rejected candidate
searchNarrowKeepRejected(b, testFontSize, h, ch) ==
    IF h <= ch
    THEN [b EXCEPT !.bestFitFontSize = testFontSize,
                   !.testMinFontSize = testFontSize + 1]
    ELSE [b EXCEPT !.bestFitFontSize = testFontSize,
                   !.testMaxFontSize = testFontSize - 1]

\* a narrowing with the comparison inverted
searchNarrowInverted(b, testFontSize, h, ch) ==
    IF h >= ch
    THEN [b EXCEPT !.bestFitFontSize = testFontSize,
                   !.testMinFontSize = testFontSize + 1]
    ELSE [b EXCEPT !.testMaxFontSize = testFontSize - 1]

\* a narrowing that remembers the size after the accepted one
searchNarrowOffByOne(b, testFontSize, h, ch) ==
    IF h <= ch
    THEN [b EXCEPT !.bestFitFontSize = testFontSize + 1,
                   !.testMinFontSize = testFontSize + 1]
    ELSE [b EXCEPT !.testMaxFontSize = testFontSize - 1]

\* a narrowing that leaves the interval as it is after a rejected candidate
searchNarrowKeepInterval(b, testFontSize, h, ch) ==
    IF h <= ch
    THEN [b EXCEPT !.bestFitFontSize = testFontSize,
                   !.testMinFontSize = testFontSize + 1]
    ELSE b

\* lines 504-509
searchNarrow(b, testFontSize, h, ch) ==
    IF h <= ch
    THEN [b EXCEPT !.bestFitFontSize = testFontSize,
                   !.testMinFontSize = testFontSize + 1]
    ELSE [b EXCEPT !.testMaxFontSize = testFontSize - 1]

\* lines 500-509: one iteration of the binary search; probes collects
\* <<size, height>> of every candidate flowed.  A flow that throws ends the
\* search and the callback.
searchProbe(st, testFontSize, cw, ch, r) ==
    IF r.frame.pc = "thrown"
    THEN [thrown |-> TRUE, b |-> st.b, probes |-> st.probes, acc |-> r.acc]
    ELSE [thrown |-> FALSE,
          b |-> searchNarrow(st.b, testFontSize, r.frame.totalHeight, ch),
          probes |-> st.probes \cup {<<testFontSize, r.frame.totalHeight>>},
          acc |-> r.acc]

\* lines 499-510
RECURSIVE searchLoop(_, _, _)
searchLoop(st, cw, ch) ==
    IF ~st.thrown /\ st.b.testMinFontSize <= st.b.testMaxFontSize
    THEN TheValue({searchLoop(n, cw, ch) :
             n \in {searchProbe(st, testFontSizeOf(st.b), cw, ch, r) :
                    r \in {flow(cw, testFontSizeOf(st.b), testFontSizeOf(st.b), st.acc)}}})
    ELSE st

\* lines 512-517: the final re-flow at the size found
measureFitted(s, cw, finalSize, eng) ==
    IF s.thrown
    THEN [thrown |-> TRUE, probes |-> s.probes, acc |-> s.acc,
          finalFontSize |-> finalSize, engine |-> eng, width |-> 0, height |-> 0]
    ELSE TheValue({[thrown |-> r.frame.pc = "thrown", probes |-> s.probes, acc |-> r.acc,
                    finalFontSize |-> s.b.bestFitFontSize,
                    engine |-> IF r.frame.pc = "thrown" THEN eng ELSE s.b.bestFitFontSize,
                    width |-> r.frame.maxWidth, height |-> r.frame.totalHeight] :
                   r \in {flow(cw, s.b.bestFitFontSize, s.b.bestFitFontSize, s.acc)}})

\* The callback as a whole: what it returns and every variable it leaves.
measureFunc(cw, ch, acc, finalSize, eng) ==
    IF textFit = "multiline"
    THEN TheValue({measureFitted(s, cw, finalSize, eng) :
             s \in {searchLoop([thrown |-> FALSE, b |-> searchStart, probes |-> {},
                                acc |-> acc], cw, ch)}})
    ELSE TheValue({[thrown |-> r.frame.pc = "thrown", probes |-> {}, acc |-> r.acc,
                    finalFontSize |-> finalSize,
                    engine |-> IF r.frame.pc = "thrown" THEN eng ELSE finalSize,
                    width |-> r.frame.maxWidth, height |-> r.frame.totalHeight] :
                   r \in {flow(cw, finalSize, finalSize, acc)}})

(***************************************************************************)
(* The render loop (lines 601-701): alignment, baseline and decoration of  *)
(* every placed segment.  Horizontal offsets are kept doubled, so that the *)
(* half of an odd slack is exact.                                          *)
(***************************************************************************)
\* lines 614-618, doubled
alignShiftTimes2(line, containerWidth) ==
    IF lineWidths[line + 1] # 0 /\ textAlign \in {"right", "end"}
    THEN 2 * (containerWidth - lineWidths[line + 1])
    ELSE IF lineWidths[line + 1] # 0 /\ textAlign = "center"
    THEN containerWidth - lineWidths[line + 1]
    ELSE 0

\* a test that ignores the flag deco[4]
decorationDueIgnoringFlag(deco) == parentStyle.textDecorationLine

\* lines 656-658: a decoration is configured and this line's is not built yet
decorationDue(deco) == parentStyle.textDecorationLine /\ ~deco.built

\* lines 602-671 for segment number k (1-based); decorationLines maps the lines
\* already met to their anchor [startX (doubled), startY, ascender, lineWidth]
\* and the flag deco[4] set once the line's decoration is built (line 669)
renderSegment(k, top, containerWidth, decorationLines) ==
    LET layout == placedSegments[k]
        line == layout.line
        image == layout.text \in graphemeImages
        leftOffsetTimes2 == 2 * layout.x + alignShiftTimes2(line, containerWidth)
        baselineOfLine == baselines[line + 1]
        baselineOfWord == EngineBaseline(layout.text, engine)
        baselineDelta == baselineOfLine - baselineOfWord
        anchor == IF line \in DOMAIN decorationLines THEN decorationLines[line]
                  ELSE [leftTimes2 |-> leftOffsetTimes2,
                        top |-> top + layout.y + baselineDelta,
                        ascender |-> baselineOfWord,
                        width |-> IF lineWidths[line + 1] # 0 THEN lineWidths[line + 1]
                                  ELSE layout.width,
                        built |-> FALSE]
    IN  [line |-> line,
         lineIndex |-> layout.lineIndex,
         x |-> layout.x,
         containerWidth |-> containerWidth,
         leftOffsetTimes2 |-> leftOffsetTimes2,
         top |-> IF image THEN top + layout.y
                 ELSE top + layout.y + baselineOfWord + baselineDelta,
         width |-> layout.width,
         decorationBuilt |-> decorationDue(anchor),
         decoration |-> [anchor EXCEPT !.built = anchor.built \/ decorationDue(anchor)]]

RECURSIVE renderLoop(_, _, _, _, _)
renderLoop(k, top, containerWidth, decorationLines, out) ==
    IF k > Len(placedSegments) THEN out
    ELSE LET seg == renderSegment(k, top, containerWidth, decorationLines)
         IN  renderLoop(k + 1, top, containerWidth,
                        [l \in DOMAIN decorationLines \cup {seg.line} |->
                            IF l = seg.line THEN seg.decoration
                            ELSE decorationLines[l]],
                        Append(out, seg))

(***************************************************************************)
(* Inputs.                                                                 *)
(***************************************************************************)
ContainerWidths == {20, 48}
AvailableHeights == {5, 30}
Positions == {<<3, 7>>}
FlowWordPool == {<<"a">>, <<",">>, <<"x", "y">>, <<"z">>, <<"E">>}
FitWordPool == {<<"a">>, <<"x", "y">>}
AlignWordPool == {<<"a">>, <<"z">>, <<"x", "y">>}
\* lines never outnumber words, so this limit is never reached (lineLimit = Infinity)
NoLineLimit == MaxWords + 1

\* requiredBreaks[0] is false: nothing precedes the first word
BreakFlags(n) == {b \in [1..n -> BOOLEAN] : n = 0 \/ ~b[1]}
NoBreaks(n) == {[k \in 1..n |-> FALSE]}
BreaksOf(forced, n) == IF forced THEN BreakFlags(n) ELSE NoBreaks(n)

\* what preprocess() returns (lines 103-112); forced: texts with forced breaks
Preprocessed(pool, forced, softWraps, limits) ==
    UNION {{[words |-> w, requiredBreaks |-> b, allowSoftWrap |-> a, lineLimit |-> l] :
               w \in [1..n -> pool], b \in BreaksOf(forced, n), a \in softWraps, l \in limits} :
           n \in 0..MaxWords}

Style(align, fit, maxSize, deco) ==
    [textAlign |-> align, textFit |-> fit, maxFontSize |-> maxSize, fontSize |-> 16,
     letterSpacing |-> 0, textDecorationLine |-> deco]

\* the state after construction, suspended at the first yield (line 131)
InitWith(styles, pres) ==
    /\ parentStyle \in styles
    /\ preprocessed \in pres
    /\ lineWidths = <<>>
    /\ baselines = <<>>
    /\ lineSegmentNumber = <<>>
    /\ placedSegments = <<>>
    /\ finalFontSize = parentStyle.fontSize
    /\ measuredTextSize = [width |-> 0, height |-> 0]
    /\ engine = parentStyle.fontSize
    /\ pc = "yield1"
    /\ flowFrame = IdleFrame
    /\ closedLines = <<>>
    /\ lastCall = [n |-> 0]
    /\ history = {}
    /\ rendered = <<>>
    /\ cache = {}
    /\ engineLog = <<>>
    /\ measureLog = <<>>
    /\ runsCall = [n |-> 0]
    /\ search = [pc |-> "idle"]
    /\ shapeCall = [n |-> 0]

FitStyles == {Style("left", "multiline", m, FALSE) : m \in {0, 8, 12}}
AlignStyles == {Style(a, "normal", 0, TRUE) :
                   a \in {"left", "right", "center", "justify", "start", "end"}}

\* textFit = 'multiline': the font-fit search
Init ==
    InitWith(FitStyles, Preprocessed(FitWordPool, TRUE, {TRUE}, {2, NoLineLimit}))

\* textFit = 'normal' and every textAlign: the render loop
InitRender ==
    InitWith(AlignStyles, Preprocessed(AlignWordPool, FALSE, {TRUE}, {NoLineLimit}))

InitFlow ==
    InitWith({Style("left", "multiline", 0, FALSE)},
             Preprocessed(FlowWordPool, TRUE, BOOLEAN, {1, 2, NoLineLimit}))

(***************************************************************************)
(* Actions.                                                                *)
(***************************************************************************)
\* The caller resumes the generator after the first yield (lines 131-143, 491):
\* the measurer is created and the measure callback registered.
ResumeFirst ==
    /\ pc = "yield1"
    /\ pc' = "yield2"
    /\ UNCHANGED <<parentStyle, preprocessed, lineWidths, baselines, lineSegmentNumber,
                   placedSegments, finalFontSize, measuredTextSize, engine,
                   flowFrame, closedLines, lastCall, history, rendered>>
    /\ UNCHANGED unitVars

\* what an invocation returned or threw, and the flow state it left
OutcomeOf(r) ==
    [thrown |-> r.thrown, width |-> r.width, height |-> r.height,
     lineWidths |-> r.acc.lineWidths, baselines |-> r.acc.baselines,
     lineSegmentNumber |-> r.acc.lineSegmentNumber,
     placedSegments |-> r.acc.placedSegments,
     finalFontSize |-> r.finalFontSize]

\* a measure callback registered before the first yield
MeasureBeforeFirstResume(cw, ch) ==
    /\ pc \in {"yield1", "yield2"}
    /\ lastCall.n < MaxCalls
    /\ \E r \in {measureFunc(cw, ch, Accumulators, finalFontSize, engine)} :
           /\ lineWidths' = r.acc.lineWidths
           /\ baselines' = r.acc.baselines
           /\ lineSegmentNumber' = r.acc.lineSegmentNumber
           /\ placedSegments' = r.acc.placedSegments
           /\ finalFontSize' = r.finalFontSize
           /\ engine' = r.engine
           /\ measuredTextSize' = IF r.thrown THEN measuredTextSize
                                  ELSE [width |-> r.width, height |-> r.height]
           /\ pc' = IF r.thrown THEN "thrown" ELSE pc
           /\ lastCall' = [n |-> lastCall.n + 1, cw |-> cw, ch |-> ch,
                           thrown |-> r.thrown, probes |-> r.probes,
                           width |-> r.width, height |-> r.height]
           /\ history' = history \cup {[cw |-> cw, ch |-> ch, outcome |-> OutcomeOf(r)]}
    /\ UNCHANGED <<parentStyle, preprocessed, flowFrame, closedLines, rendered>>
    /\ UNCHANGED unitVars

\* The layout engine invokes the measure callback (lines 491-533).
Measure(cw, ch) ==
    /\ pc = "yield2"
    /\ lastCall.n < MaxCalls
    /\ \E r \in {measureFunc(cw, ch, Accumulators, finalFontSize, engine)} :
           /\ lineWidths' = r.acc.lineWidths
           /\ baselines' = r.acc.baselines
           /\ lineSegmentNumber' = r.acc.lineSegmentNumber
           /\ placedSegments' = r.acc.placedSegments
           /\ finalFontSize' = r.finalFontSize
           /\ engine' = r.engine
           /\ measuredTextSize' = IF r.thrown THEN measuredTextSize
                                  ELSE [width |-> r.width, height |-> r.height]
           /\ pc' = IF r.thrown THEN "thrown" ELSE pc
           /\ lastCall' = [n |-> lastCall.n + 1, cw |-> cw, ch |-> ch,
                           thrown |-> r.thrown, probes |-> r.probes,
                           width |-> r.width, height |-> r.height]
           /\ history' = history \cup {[cw |-> cw, ch |-> ch, outcome |-> OutcomeOf(r)]}
    /\ UNCHANGED <<parentStyle, preprocessed, flowFrame, closedLines, rendered>>
    /\ UNCHANGED unitVars

\* The caller resumes the generator with the final position (lines 538-739).
ResumeSecond(position, containerTop, containerWidth) ==
    /\ pc = "yield2"
    /\ rendered' = renderLoop(1, position[2] + containerTop, containerWidth,
                              <<>>, <<>>)
    /\ pc' = "done"
    /\ UNCHANGED <<parentStyle, preprocessed, lineWidths, baselines, lineSegmentNumber,
                   placedSegments, finalFontSize, measuredTextSize, engine,
                   flowFrame, closedLines, lastCall, history>>
    /\ UNCHANGED unitVars

Next ==
    \/ ResumeFirst
    \/ \E cw \in ContainerWidths, ch \in AvailableHeights : Measure(cw, ch)
    \/ \E p \in Positions, w \in ContainerWidths : ResumeSecond(p, 0, w)

Spec == Init /\ [][Next]_vars

SpecRender == InitRender /\ [][Next]_vars

(***************************************************************************)
(* flow() step by step, as the measure callback runs it for one candidate  *)
(* font size.                                                              *)
(***************************************************************************)
FlowSizes == {10, 16}

\* lines 502, 514, 520 and 354-366: the callback calls flow
FlowCall(cw, size) ==
    /\ pc = "yield2"
    /\ flowFrame.pc \in {"idle", "returned"}
    /\ flowFrame' = flowEnter(cw, size, size)
    /\ lineWidths' = flowReset(Accumulators).lineWidths
    /\ baselines' = flowReset(Accumulators).baselines
    /\ lineSegmentNumber' = flowReset(Accumulators).lineSegmentNumber
    /\ placedSegments' = flowReset(Accumulators).placedSegments
    /\ closedLines' = <<>>
    /\ UNCHANGED <<parentStyle, preprocessed, finalFontSize, measuredTextSize, engine,
                   pc, lastCall, history, rendered>>
    /\ UNCHANGED unitVars

FlowAdvance(n) ==
    /\ flowFrame' = n.frame
    /\ lineWidths' = n.acc.lineWidths
    /\ baselines' = n.acc.baselines
    /\ lineSegmentNumber' = n.acc.lineSegmentNumber
    /\ placedSegments' = n.acc.placedSegments
    /\ closedLines' = IF n.frame.pc # "thrown" /\ n.frame.lines > flowFrame.lines
                      THEN Append(closedLines, flowFrame.currentLineWords)
                      ELSE closedLines
    /\ pc' = IF n.frame.pc = "thrown" THEN "thrown" ELSE pc
    /\ UNCHANGED <<parentStyle, preprocessed, finalFontSize, measuredTextSize, engine,
                   lastCall, history, rendered>>
    /\ UNCHANGED unitVars

\* lines 378-427: one iteration of the word loop
FlowStep ==
    /\ flowFrame.pc = "loop"
    /\ flowGuard(flowFrame)
    /\ \E n \in {flowIteration(flowFrame, Accumulators)} : FlowAdvance(n)

\* lines 429-447: the loop is left, the last line flushed, flow returns
FlowFlush ==
    /\ flowFrame.pc = "loop"
    /\ ~flowGuard(flowFrame)
    /\ \E n \in {flowFlush(flowFrame, Accumulators)} : FlowAdvance(n)

NextFlow ==
    \/ ResumeFirst
    \/ \E cw \in ContainerWidths, size \in FlowSizes : FlowCall(cw, size)
    \/ FlowStep
    \/ FlowFlush

SpecFlow == InitFlow /\ [][NextFlow]_vars

(***************************************************************************)
(* The measure callback step by step (lines 491-533, textFit 'multiline'): *)
(* every probe of the binary search and the final re-flow run flow() one   *)
(* loop iteration at a time.  probeLog records the candidate sizes in the  *)
(* order they are flowed, reflows counts the final re-flows.               *)
(***************************************************************************)
InitFit ==
    InitWith(FitStyles, Preprocessed(FitWordPool, TRUE, {TRUE}, {2, NoLineLimit}))

\* lines 354-366: flow is entered with a candidate size and its engine
FitFlowEnter(cw, size) ==
    /\ flowFrame' = flowEnter(cw, size, size)
    /\ lineWidths' = flowReset(Accumulators).lineWidths
    /\ baselines' = flowReset(Accumulators).baselines
    /\ lineSegmentNumber' = flowReset(Accumulators).lineSegmentNumber
    /\ placedSegments' = flowReset(Accumulators).placedSegments
    /\ closedLines' = <<>>

\* lines 491-497: the layout engine invokes the callback
SearchBegin(cw, ch) ==
    /\ pc = "yield2"
    /\ textFit = "multiline"
    /\ search.pc = "idle"
    /\ search' = [pc |-> "loop", cw |-> cw, ch |-> ch, b |-> searchStart,
                  probeLog |-> <<>>, reflows |-> 0]
    /\ UNCHANGED layoutVars
    /\ UNCHANGED <<cache, engineLog, measureLog, runsCall, shapeCall>>

\* lines 499-502: the loop guard holds, the candidate is flowed
SearchProbeCall ==
    /\ search.pc = "loop"
    /\ search.b.testMinFontSize <= search.b.testMaxFontSize
    /\ FitFlowEnter(search.cw, testFontSizeOf(search.b))
    /\ search' = [search EXCEPT !.pc = "flowing",
                                !.probeLog = Append(@, testFontSizeOf(search.b))]
    /\ UNCHANGED <<parentStyle, preprocessed, finalFontSize, measuredTextSize, engine,
                   pc, lastCall, history, rendered>>
    /\ UNCHANGED <<cache, engineLog, measureLog, runsCall, shapeCall>>

\* lines 504-509: flow has returned h, the interval is narrowed
SearchNarrow ==
    /\ search.pc = "flowing"
    /\ flowFrame.pc = "returned"
    /\ search' = [search EXCEPT !.pc = "loop",
                                !.b = searchNarrow(search.b, testFontSizeOf(search.b),
                                                   flowFrame.totalHeight, search.ch)]
    /\ UNCHANGED layoutVars
    /\ UNCHANGED <<cache, engineLog, measureLog, runsCall, shapeCall>>

\* lines 512-514: the loop is left, the final re-flow at the size found
SearchFinalCall ==
    /\ search.pc = "loop"
    /\ search.b.testMinFontSize > search.b.testMaxFontSize
    /\ finalFontSize' = search.b.bestFitFontSize
    /\ FitFlowEnter(search.cw, search.b.bestFitFontSize)
    /\ search' = [search EXCEPT !.pc = "final", !.reflows = @ + 1]
    /\ UNCHANGED <<parentStyle, preprocessed, measuredTextSize, engine,
                   pc, lastCall, history, rendered>>
    /\ UNCHANGED <<cache, engineLog, measureLog, runsCall, shapeCall>>

\* lines 515-517 and 531-532: the callback returns
SearchReturn ==
    /\ search.pc = "final"
    /\ flowFrame.pc = "returned"
    /\ engine' = finalFontSize
    /\ measuredTextSize' = [width |-> flowFrame.maxWidth, height |-> flowFrame.totalHeight]
    /\ search' = [search EXCEPT !.pc = "done"]
    /\ UNCHANGED <<parentStyle, preprocessed, lineWidths, baselines, lineSegmentNumber,
                   placedSegments, finalFontSize, pc, flowFrame, closedLines,
                   lastCall, history, rendered>>
    /\ UNCHANGED <<cache, engineLog, measureLog, runsCall, shapeCall>>

\* the steps of a running callback
FitRun ==
    \/ SearchProbeCall
    \/ FlowStep
    \/ FlowFlush
    \/ SearchNarrow
    \/ SearchFinalCall
    \/ SearchReturn

NextFit ==
    \/ ResumeFirst
    \/ \E cw \in ContainerWidths, ch \in AvailableHeights : SearchBegin(cw, ch)
    \/ SearchProbeCall
    \/ FlowStep
    \/ FlowFlush
    \/ SearchNarrow
    \/ SearchFinalCall
    \/ SearchReturn

\* ENABLED <<FitRun>>_vars, written as the guards of the six steps
FitRunEnabled ==
    \/ search.pc = "loop"
    \/ flowFrame.pc = "loop"
    \/ search.pc \in {"flowing", "final"} /\ flowFrame.pc = "returned"

\* The callback is synchronous code: once invoked it keeps running.  This is
\* WF_vars(FitRun) with its ENABLED written out.
FitFairness == []<>(~FitRunEnabled) \/ []<><<FitRun>>_vars

SpecFit == InitFit /\ [][NextFit]_vars /\ FitFairness

(***************************************************************************)
(* Claims about flow(), checked under SpecFlow.                            *)
(***************************************************************************)
FlowActive == flowFrame.pc \in {"loop", "returned", "thrown"}

\* the width the line-breaking loop gave a line: the sum of measureWord over
\* its words at flow's own font size
BreakingWidth(lineWords, size) ==
    SumSeq([k \in 1..Len(lineWords) |-> measureWord(lineWords[k], size)])

\* C1 (as claimed): when flow() runs with allowSoftWrap and no single word is
\* wider than the container, every line recorded in lineWidths has
\* width <= containerWidth, whatever the words' first characters and whatever
\* forced breaks are present.
C1_LineWidthBound ==
    ( /\ flowFrame.pc \in {"loop", "returned"}
      /\ allowSoftWrap
      /\ \A k \in 1..Len(words) :
            measureWord(words[k], flowFrame.fontSize) <= flowFrame.containerWidth )
    => \A k \in 1..Len(lineWidths) : lineWidths[k] <= flowFrame.containerWidth

\* C7 (as claimed): when flow() runs at font size s, the width recorded for each
\* line equals the sum of the widths its words were given for line breaking at s.
C7_WidthConsistency ==
    FlowActive =>
        /\ Len(closedLines) = Len(lineWidths)
        /\ \A k \in 1..Len(lineWidths) :
              lineWidths[k] = BreakingWidth(closedLines[k], flowFrame.fontSize)

ForcedBreakIndices == {k \in 1..Len(words) : requiredBreaks[k]}

\* C2 (as claimed): a forced break always closes the current line, and with
\* exactly one forced break, between two words, in a container wide enough that
\* nothing wraps, flow() produces exactly two lines, the second starting at the
\* word that follows the break.
C2_ForcedBreak ==
    /\ flowFrame.pc \in {"loop", "returned"} =>
          \/ flowFrame.lines = lineLimit
          \/ flowFrame.lines >=
                Cardinality({k \in ForcedBreakIndices : k <= flowFrame.i})
    /\ ( /\ flowFrame.pc = "returned"
         /\ Cardinality(ForcedBreakIndices) = 1
         /\ lineLimit >= 2
         /\ BreakingWidth(words, flowFrame.fontSize) <= flowFrame.containerWidth )
       => \A k \in ForcedBreakIndices :
             /\ Len(lineWidths) = 2
             /\ Len(closedLines) = 2
             /\ Len(closedLines[2]) > 0
             /\ closedLines[2][1] = words[k]

\* the word loop is about to shape an empty line: a forced break with no word
\* accumulated
AboutToShapeEmptyLine ==
    /\ flowFrame.pc = "loop"
    /\ flowGuard(flowFrame)
    /\ requiredBreaks[flowFrame.i + 1]
    /\ Len(Join(flowFrame.currentLineWords)) = 0

\* C9 (as claimed): shaping a line whose text is empty yields zero runs, zero
\* placed segments and width 0, and returns normally without raising.
C9_EmptyLine ==
    /\ flowFrame.pc # "thrown"
    /\ AboutToShapeEmptyLine =>
          LET r == shapeLineWithBidiRuns(flowFrame.currentLineWords, 0, flowFrame.lines,
                       flowFrame.totalHeight, flowFrame.containerWidth, flowFrame.useEngine)
          IN  ~r.thrown /\ Len(r.runs) = 0 /\ Len(r.segments) = 0 /\ r.width = 0

\* C10: at every point of flow() and on its return the number of completed lines
\* is at most lineLimit; once lineLimit lines are completed no further word is
\* consumed, no further line is shaped (the trailing flush included) and no
\* further segment is added, and flow() then returns normally.
C10_LineLimit ==
    /\ [](FlowActive =>
            /\ flowFrame.lines <= lineLimit
            /\ Len(lineWidths) <= lineLimit)
    /\ [][(flowFrame.pc = "loop" /\ flowFrame.lines = lineLimit) =>
            /\ flowFrame'.pc = "returned"
            /\ flowFrame'.i = flowFrame.i
            /\ flowFrame'.lines = flowFrame.lines
            /\ lineWidths' = lineWidths
            /\ baselines' = baselines
            /\ lineSegmentNumber' = lineSegmentNumber
            /\ placedSegments' = placedSegments]_vars

\* C10 witness: flow() has returned at the line limit with words left unconsumed
\* and an unflushed line
C10_Witness ==
    /\ flowFrame.pc = "returned"
    /\ flowFrame.lines = lineLimit
    /\ flowFrame.i < Len(words)
    /\ Len(flowFrame.currentLineWords) > 0

\* C14 (as claimed): for each word, willWrap is true exactly when the word is not
\* the first word on its current line, its first character is not in the
\* punctuation set, the current line width plus the word's width exceeds the
\* container width, and soft wrap is enabled; a word that is first on its line
\* never triggers a soft wrap.
C14_SoftWrapCondition ==
    (flowFrame.pc = "loop" /\ flowGuard(flowFrame)) =>
        LET word == words[flowFrame.i + 1]
            w == measureWord(word, flowFrame.fontSize)
        IN  willWrap(flowFrame, word, w) <=>
                /\ Len(flowFrame.currentLineWords) > 0
                /\ word[1] \notin PunctuationSet
                /\ flowFrame.currentLineWidth + w > flowFrame.containerWidth
                /\ allowSoftWrap

Reverse(text) == [k \in 1..Len(text) |-> text[Len(text) + 1 - k]]

\* the placed segments of line number n (0-based), in emission order
RECURSIVE SegmentsFrom(_, _)
SegmentsFrom(segs, n) ==
    IF Len(segs) = 0 THEN <<>>
    ELSE IF Head(segs).line = n THEN <<Head(segs)>> \o SegmentsFrom(Tail(segs), n)
    ELSE SegmentsFrom(Tail(segs), n)

SegmentsOfLine(n) == SegmentsFrom(placedSegments, n)

\* the runs of a closed line, as the shaper cuts them
RunsOfLine(lineWords) == getRuns(Join(lineWords), getEmbeddingLevels(Join(lineWords)))
RunText(lineWords, run) == Slice(Join(lineWords), run.start, run.end)
RunWidth(lineWords, run) == ShapeRun(Join(lineWords), run).width

\* closed line k is made of one left-to-right and one right-to-left run of equal
\* measured width
MixedLine(k) ==
    LET runs == RunsOfLine(closedLines[k])
    IN  /\ Len(runs) = 2
        /\ (runs[1].level % 2) # (runs[2].level % 2)
        /\ RunWidth(closedLines[k], runs[1]) = RunWidth(closedLines[k], runs[2])

\* C16: for a line made of one left-to-right run and one right-to-left run, each
\* of measured width k, shapeLineWithBidiRuns emits exactly two visual segments,
\* the line width is 2k, and the right-to-left segment's text is the run's
\* characters in reverse logical order.
C16_MixedDirectionLine ==
    FlowActive => \A k \in 1..Len(closedLines) :
        MixedLine(k) =>
            LET runs == RunsOfLine(closedLines[k])
                rtl == IF runs[1].level % 2 = 1 THEN runs[1] ELSE runs[2]
                ltr == IF runs[1].level % 2 = 1 THEN runs[2] ELSE runs[1]
                segs == SegmentsOfLine(k - 1)
            IN  /\ Len(segs) = 2
                /\ lineWidths[k] = 2 * RunWidth(closedLines[k], rtl)
                /\ \E a, b \in 1..2 :
                      /\ a # b
                      /\ segs[a].text = Reverse(RunText(closedLines[k], rtl))
                      /\ segs[a].width = RunWidth(closedLines[k], rtl)
                      /\ segs[b].text = RunText(closedLines[k], ltr)

\* C16 witness: a closed line of a two-character left-to-right run and a
\* two-character right-to-left run
C16_Witness ==
    /\ FlowActive
    /\ \E k \in 1..Len(closedLines) :
          /\ MixedLine(k)
          /\ \A r \in 1..2 :
                RunsOfLine(closedLines[k])[r].end - RunsOfLine(closedLines[k])[r].start = 2

\* the next step of flow() shapes the current line: a forced break, a soft wrap
\* or the final flush
AboutToShapeLine ==
    /\ flowFrame.pc = "loop"
    /\ IF flowGuard(flowFrame)
       THEN \/ requiredBreaks[flowFrame.i + 1]
            \/ willWrap(flowFrame, words[flowFrame.i + 1],
                        measureWord(words[flowFrame.i + 1], flowFrame.fontSize))
       ELSE flushGuard(flowFrame)

\* lines 42 and 47: the analysis result has no levels, or levels of another
\* length than the line
FallbackApplies(lineText) ==
    \/ Len(getEmbeddingLevels(lineText)) = 0
    \/ Len(getEmbeddingLevels(lineText)) # Len(lineText)

\* C18 (as claimed): whenever the bidi analysis result is missing, has no levels
\* or has levels of another length than the line, the line is treated as a single
\* level-0 run spanning the whole line, and shaping that line still completes
\* and produces segments covering the whole line.
C18_BidiFallback ==
    (AboutToShapeLine /\ FallbackApplies(Join(flowFrame.currentLineWords))) =>
        LET lineText == Join(flowFrame.currentLineWords)
            r == shapeLineWithBidiRuns(flowFrame.currentLineWords, 0, flowFrame.lines,
                     flowFrame.totalHeight, flowFrame.containerWidth, flowFrame.useEngine)
        IN  /\ r.runs = <<[start |-> 0, end |-> Len(lineText), level |-> 0]>>
            /\ ~r.thrown
            /\ Join([k \in 1..Len(r.segments) |-> r.segments[k].text]) = lineText

\* C12: in every state during and after flow(), between line completions,
\* lineWidths, baselines and lineSegmentNumber all have as many entries as there
\* are completed lines, and every placed segment's line number is below that
\* count.
C12_LineRecord ==
    FlowActive =>
        /\ Len(lineWidths) = flowFrame.lines
        /\ Len(baselines) = flowFrame.lines
        /\ Len(lineSegmentNumber) = flowFrame.lines
        /\ \A k \in 1..Len(placedSegments) :
              /\ placedSegments[k].line >= 0
              /\ placedSegments[k].line < flowFrame.lines

\* C12 witness: flow() is still in its loop with two lines completed and their
\* segments placed
C12_Witness ==
    /\ flowFrame.pc = "loop"
    /\ flowFrame.lines = 2
    /\ \E k \in 1..Len(placedSegments) : placedSegments[k].line = 1

LineHeightOf(lineWords, useEngine) ==
    LET runs == RunsOfLine(lineWords)
        asc == [r \in 1..Len(runs) |-> EngineBaseline(RunText(lineWords, runs[r]), useEngine)]
        desc == [r \in 1..Len(runs) |->
                    EngineHeight(RunText(lineWords, runs[r]), useEngine) - asc[r]]
    IN  MaxSeq(asc) + MaxSeq(desc)

\* the heights of the closed lines 1..n, summed
HeightAbove(n) ==
    SumSeq([m \in 1..n |-> LineHeightOf(closedLines[m], flowFrame.useEngine)])

\* C20: every placed segment of line n has y equal to the sum of the heights of
\* lines 0..n-1, the height flow() returns is the sum of all line heights, and
\* the width it returns is the maximum recorded line width (0 without lines).
C20_VerticalStacking ==
    FlowActive =>
        /\ \A k \in 1..Len(placedSegments) :
              placedSegments[k].y = HeightAbove(placedSegments[k].line)
        /\ flowFrame.pc = "returned" =>
              /\ flowFrame.totalHeight = HeightAbove(Len(closedLines))
              /\ flowFrame.maxWidth = MaxSeq(lineWidths)

\* C20 witness: flow() has returned three lines of different heights
C20_Witness ==
    /\ flowFrame.pc = "returned"
    /\ Len(closedLines) = 3
    /\ \E k \in 1..Len(placedSegments) : placedSegments[k].line = 2
    /\ LineHeightOf(closedLines[1], flowFrame.useEngine)
          # LineHeightOf(closedLines[2], flowFrame.useEngine)

\* C22 (as claimed): when the line limit is not reached, every word is placed
\* on exactly one line and the lines read in order give the words in their
\* original order; no word is lost at a soft wrap or at a forced break.
C22_ContentPreservation ==
    (flowFrame.pc = "returned" /\ flowFrame.lines < lineLimit)
        => Join(closedLines) = words

(***************************************************************************)
(* Claims about the measure callback, checked under Spec.                  *)
(***************************************************************************)
Returned == lastCall.n > 0 /\ ~lastCall.thrown

FitReturned == Returned /\ textFit = "multiline"
SomeProbeFits == \E p \in lastCall.probes : p[2] <= lastCall.ch
NextSizeRejected ==
    \A p \in lastCall.probes : p[1] = finalFontSize + 1 => p[2] > lastCall.ch

\* C3 (as claimed): in multiline mode, for every available height ch the chosen
\* font size has flow height <= ch, and if size + 1 was probed its flow height
\* is > ch.
C3_FontFitOptimum ==
    FitReturned => (lastCall.height <= lastCall.ch /\ NextSizeRejected)

\* C3 (amended): whenever some probed size fits, the chosen size has flow
\* height <= ch; if size + 1 was probed its flow height is > ch; and when no
\* probed size fits, the minimum size is chosen.
C3_FontFitOptimumAmended ==
    FitReturned =>
        /\ SomeProbeFits => lastCall.height <= lastCall.ch
        /\ NextSizeRejected
        /\ ~SomeProbeFits => finalFontSize = searchStart.testMinFontSize

\* C3 witness: a search that accepted a size and rejected the next one
C3_Witness ==
    /\ FitReturned
    /\ <<finalFontSize, lastCall.height>> \in lastCall.probes
    /\ lastCall.height <= lastCall.ch
    /\ \E p \in lastCall.probes : p[1] = finalFontSize + 1

FitHistory == {h \in history : textFit = "multiline" /\ ~h.outcome.thrown}

\* C4: in multiline mode, for the same words and container width, ch1 <= ch2
\* implies chosen(ch1) <= chosen(ch2).
C4_FontFitMonotone ==
    \A h1, h2 \in FitHistory :
        (h1.cw = h2.cw /\ h1.ch <= h2.ch)
        => h1.outcome.finalFontSize <= h2.outcome.finalFontSize

\* C4 witness: two heights for the same width that chose different sizes
C4_Witness ==
    \E h1, h2 \in FitHistory :
        /\ h1.cw = h2.cw
        /\ h1.ch < h2.ch
        /\ h1.outcome.finalFontSize < h2.outcome.finalFontSize

FreshOutcome(cw, ch) ==
    OutcomeOf(measureFunc(cw, ch, InitialAccumulators, fontSize, fontSize))

\* C6: what an invocation of the measure callback returns and the flow state it
\* leaves depend only on its arguments: two invocations with identical
\* arguments have identical outcomes, and the last invocation throws or returns
\* as the same invocation made first would, and when it returns, its result and
\* the state it left are those of the same invocation made first.
C6_MeasureIdempotent ==
    /\ \A h1, h2 \in history :
          (h1.cw = h2.cw /\ h1.ch = h2.ch) => h1.outcome = h2.outcome
    /\ (lastCall.n > 0 /\ pc \in {"yield2", "thrown"}) =>
          \E fresh \in {FreshOutcome(lastCall.cw, lastCall.ch)} :
              /\ fresh.thrown = lastCall.thrown
              /\ ~lastCall.thrown =>
                  /\ [cw |-> lastCall.cw, ch |-> lastCall.ch, outcome |-> fresh] \in history
                  /\ lineWidths = fresh.lineWidths
                  /\ baselines = fresh.baselines
                  /\ lineSegmentNumber = fresh.lineSegmentNumber
                  /\ placedSegments = fresh.placedSegments
                  /\ finalFontSize = fresh.finalFontSize
                  /\ measuredTextSize = [width |-> fresh.width, height |-> fresh.height]

\* C6 witness: a second invocation that left segments, after a first one with
\* other arguments that had chosen another font size
C6_Witness ==
    /\ Returned
    /\ lastCall.n = 2
    /\ Len(placedSegments) > 1
    /\ \E h \in history : /\ <<h.cw, h.ch>> # <<lastCall.cw, lastCall.ch>>
                          /\ h.outcome.finalFontSize # finalFontSize

(***************************************************************************)
(* Claims about the generator's protocol, checked under Spec.              *)
(***************************************************************************)
\* C13: buildTextNodes suspends twice, in this order: at the first yield nothing
\* has been measured or flowed and the measure callback is not yet registered;
\* the render loop runs and output is produced only on the second resume, and
\* after it the generator is finished and takes no further step.
C13_Handshake ==
    /\ [](pc = "yield1" =>
            /\ lastCall.n = 0
            /\ history = {}
            /\ flowFrame = IdleFrame
            /\ Accumulators = InitialAccumulators
            /\ rendered = <<>>)
    /\ [](rendered # <<>> => pc = "done")
    /\ [][pc' # pc => <<pc, pc'>> \in {<<"yield1", "yield2">>, <<"yield2", "done">>,
                                       <<"yield2", "thrown">>}]_vars
    /\ [][rendered' # rendered => (pc = "yield2" /\ pc' = "done")]_vars
    /\ [][pc = "done" => UNCHANGED vars]_vars

\* C13 witness: the generator has finished after measurements, with output
C13_Witness ==
    /\ pc = "done"
    /\ lastCall.n > 0
    /\ Len(rendered) > 0

(***************************************************************************)
(* Claims about the render loop, checked under SpecRender.                 *)
(***************************************************************************)
\* the shift the claim gives a line of width w in a container of width W, doubled
ClaimedShiftTimes2(W, w) ==
    IF textAlign = "center" THEN W - w
    ELSE IF textAlign \in {"right", "end"} THEN 2 * (W - w)
    ELSE 0

\* C8 (as claimed): for every placed segment on a line of width w in a
\* container of width W, the x-offset is the start-aligned x plus (W - w)/2 for
\* center, plus (W - w) for right and end, plus 0 for left and start, for every
\* w including 0.
C8_Alignment ==
    \A k \in 1..Len(rendered) :
        textAlign \in {"center", "right", "end", "left", "start"} =>
            rendered[k].leftOffsetTimes2 =
                2 * rendered[k].x
                + ClaimedShiftTimes2(rendered[k].containerWidth,
                                     lineWidths[rendered[k].line + 1])

\* the rendered segments of line number n (0-based)
RenderedOfLine(n) == {k \in 1..Len(rendered) : rendered[k].line = n}
RenderedLines == {rendered[k].line : k \in 1..Len(rendered)}

\* C17: when a text decoration is configured, over the whole render loop exactly
\* one decoration is built for each line that has a placed segment (never one
\* per segment), and its anchor (start x, line width) is taken from the first
\* placed segment of that line.
C17_DecorationOncePerLine ==
    (pc = "done" /\ parentStyle.textDecorationLine) =>
        \A n \in RenderedLines :
            LET first == CHOOSE k \in RenderedOfLine(n) : \A j \in RenderedOfLine(n) : k <= j
            IN  /\ Cardinality({k \in RenderedOfLine(n) : rendered[k].decorationBuilt}) = 1
                /\ rendered[first].decorationBuilt
                /\ rendered[first].lineIndex = 0
                /\ rendered[first].decoration.leftTimes2 = rendered[first].leftOffsetTimes2
                /\ rendered[first].decoration.width =
                      IF lineWidths[n + 1] # 0 THEN lineWidths[n + 1]
                      ELSE rendered[first].width

\* C17 witness: two lines rendered, one of them with two segments
C17_Witness ==
    /\ pc = "done"
    /\ parentStyle.textDecorationLine
    /\ Cardinality(RenderedLines) = 2
    /\ \E n \in RenderedLines : Cardinality(RenderedOfLine(n)) = 2

(***************************************************************************)
(* getRuns on its own: any line text with any embedding-level sequence,    *)
(* the empty and the wrong-length sequences included.                      *)
(***************************************************************************)
LineTexts == UNION {[1..n -> {"a", "x"}] : n \in 0..MaxLineLength}
LevelSequences == UNION {[1..n -> 0..2] : n \in 0..MaxLineLength}

InitRuns ==
    InitWith({Style("left", "normal", 0, FALSE)},
             Preprocessed({<<"a">>}, FALSE, {TRUE}, {NoLineLimit}))

\* line 175: getRuns(lineText, embeddingLevels).  getRuns keeps no state, so
\* one call in a behaviour shows all it can do.
GetRunsCall(text, levels) ==
    /\ runsCall.n = 0
    /\ runsCall' = [n |-> 1, text |-> text, levels |-> levels,
                    runs |-> getRuns(text, levels)]
    /\ UNCHANGED layoutVars
    /\ UNCHANGED <<cache, engineLog, measureLog, search, shapeCall>>

NextRuns == \E text \in LineTexts, levels \in LevelSequences : GetRunsCall(text, levels)

SpecRuns == InitRuns /\ [][NextRuns]_vars

(***************************************************************************)
(* Claims about getRuns, checked under SpecRuns.                           *)
(***************************************************************************)
RunsCalledProperly ==
    /\ runsCall.n > 0
    /\ Len(runsCall.text) > 0
    /\ Len(runsCall.levels) = Len(runsCall.text)

\* C11: for every non-empty line text and every embedding-level sequence of the
\* same length, the runs of getRuns have non-empty spans, start at 0, end at the
\* text length, are pairwise adjacent and are maximal (adjacent runs differ in
\* level): they cover [0, lineLength) with no gaps or overlaps.
C11_RunCoverage ==
    RunsCalledProperly =>
        LET runs == runsCall.runs
        IN  /\ Len(runs) > 0
            /\ runs[1].start = 0
            /\ runs[Len(runs)].end = Len(runsCall.text)
            /\ \A r \in 1..Len(runs) : runs[r].start < runs[r].end
            /\ \A r \in 2..Len(runs) :
                  /\ runs[r].start = runs[r - 1].end
                  /\ runs[r].level # runs[r - 1].level
            /\ \A r \in 1..Len(runs) : \A c \in (runs[r].start + 1)..runs[r].end :
                  runsCall.levels[c] = runs[r].level

\* C11 witness: a level sequence that changes twice, cut into three runs
C11_Witness ==
    /\ RunsCalledProperly
    /\ Len(runsCall.runs) = 3

(***************************************************************************)
(* The measurer on its own: any sequence of measureGrapheme calls on one   *)
(* measurer.                                                               *)
(***************************************************************************)
MeasuredGraphemes == {"a", "-", "1", "z"}
MeasuredFontSizes == {1, 11}
MeasuredSpacings == {-1, 0}

InitMeasurer ==
    InitWith({Style("left", "normal", 0, FALSE)},
             Preprocessed({<<"a">>}, FALSE, {TRUE}, {NoLineLimit}))

\* part_000 lines 14-24: one call of measureGrapheme
MeasureGraphemeCall(grapheme, size, spacing) ==
    /\ Len(measureLog) < MaxMeasures
    /\ \E r \in {measureGraphemeWithCache(cache, grapheme, size, spacing)} :
          /\ cache' = r.cache
          /\ engineLog' = IF r.consulted
                          THEN Append(engineLog, <<grapheme, size, spacing>>)
                          ELSE engineLog
          /\ measureLog' = Append(measureLog,
                                  [triple |-> <<grapheme, size, spacing>>,
                                   width |-> r.width])
    /\ UNCHANGED layoutVars
    /\ UNCHANGED <<runsCall, search, shapeCall>>

NextMeasurer ==
    \E grapheme \in MeasuredGraphemes, size \in MeasuredFontSizes,
       spacing \in MeasuredSpacings : MeasureGraphemeCall(grapheme, size, spacing)

SpecMeasurer == InitMeasurer /\ [][NextMeasurer]_vars

(***************************************************************************)
(* Claims about the measurer, checked under SpecMeasurer.                  *)
(***************************************************************************)
MeasuredTriples == {measureLog[k].triple : k \in 1..Len(measureLog)}

\* C15: over any sequence of measureGrapheme calls on one measurer the cache only
\* grows (no entry is removed or overwritten), the engine is consulted at most
\* once per distinct (grapheme, fontSize, letterSpacing) triple, every later call
\* with the same triple returns the value stored by the first call (a stored 0
\* included), and distinct triples never share a cache entry.
C15_MeasurementCache ==
    /\ [][cache \subseteq cache']_vars
    /\ [](/\ \A e1, e2 \in cache : e1[1] = e2[1] => e1 = e2
          /\ \A i, j \in 1..Len(engineLog) : engineLog[i] = engineLog[j] => i = j
          /\ \A i, j \in 1..Len(measureLog) :
                measureLog[i].triple = measureLog[j].triple
                => measureLog[i].width = measureLog[j].width
          /\ \A k \in 1..Len(measureLog) :
                /\ <<cacheKey(measureLog[k].triple[1], measureLog[k].triple[2],
                              measureLog[k].triple[3]), measureLog[k].width>> \in cache
                /\ measureLog[k].width = measureGrapheme(measureLog[k].triple[1],
                                            measureLog[k].triple[2], measureLog[k].triple[3])
          /\ \A t1, t2 \in MeasuredTriples :
                cacheKey(t1[1], t1[2], t1[3]) = cacheKey(t2[1], t2[2], t2[3]) => t1 = t2
          /\ Cardinality(cache) = Cardinality(MeasuredTriples))

\* C15 witness: a triple whose width is 0 was measured twice and another triple
\* in between, with the engine consulted twice in all
C15_Witness ==
    /\ Len(measureLog) = 3
    /\ measureLog[1].triple = measureLog[3].triple
    /\ measureLog[1].triple # measureLog[2].triple
    /\ measureLog[1].width = 0
    /\ Len(engineLog) = 2

(***************************************************************************)
(* The Run Shaper's grouping on its own (lines 193-314): any non-empty    *)
(* line text, any run decomposition and any permutation of its indices.    *)
(***************************************************************************)
ShapedTexts == UNION {[1..n -> {"a", "x", "E"}] : n \in 1..MaxLineLength}
ShapedLevels(n) == [1..n -> 0..1]
IndexPermutations(n) ==
    {q \in [1..n -> 0..(n - 1)] : \A j, k \in 1..n : j # k => q[j] # q[k]}

InitShaper ==
    InitWith({Style("left", "normal", 0, FALSE)},
             Preprocessed({<<"a">>}, FALSE, {TRUE}, {NoLineLimit}))

\* lines 193-213 and 245-314 for the runs that cut `levels` and the visual
\* order `reordered`.  The grouping keeps no state, so one call in a behaviour
\* shows all it can do.
ShapeCall(text, levels, reordered) ==
    /\ shapeCall.n = 0
    /\ shapeCall' =
          LET runs == getRuns(text, levels)
              shapedRunSegments == [r \in 1..Len(runs) |-> ShapeRun(text, runs[r])]
              runMap == BuildRunMap(shapedRunSegments, 0)
          IN  [n |-> 1, text |-> text, runs |-> runs, reordered |-> reordered,
               segments |-> GroupLoop(shapedRunSegments, reordered, runMap, 0,
                                      runMap[reordered[1] + 1], 0, <<>>)]
    /\ UNCHANGED layoutVars
    /\ UNCHANGED <<cache, engineLog, measureLog, runsCall, search>>

NextShaper ==
    \E text \in ShapedTexts :
        \E levels \in ShapedLevels(Len(text)), reordered \in IndexPermutations(Len(text)) :
            ShapeCall(text, levels, reordered)

SpecShaper == InitShaper /\ [][NextShaper]_vars

(***************************************************************************)
(* Claims about the grouping, checked under SpecShaper.                    *)
(***************************************************************************)
\* the run that holds character index idx (0-based)
RunHolding(runs, idx) ==
    CHOOSE r \in 1..Len(runs) : runs[r].start <= idx /\ idx < runs[r].end

\* the number of characters emitted before segment k
EmittedBefore(segs, k) == SumSeq([m \in 1..(k - 1) |-> Len(segs[m].text)])

\* C23: for any non-empty line, any run decomposition covering it and any
\* permutation of its indices, the emitted segments' texts concatenated are the
\* line's characters in the permutation's order, and every segment holds
\* characters of a single run only.
C23_CharacterPreservation ==
    shapeCall.n = 1 =>
        LET segs == shapeCall.segments
            text == shapeCall.text
            reordered == shapeCall.reordered
        IN  /\ Join([k \in 1..Len(segs) |-> segs[k].text])
                  = [k \in 1..Len(text) |-> text[reordered[k] + 1]]
            /\ \A k \in 1..Len(segs) : \A j \in 1..Len(segs[k].text) :
                  RunHolding(shapeCall.runs, reordered[EmittedBefore(segs, k) + j])
                      = RunHolding(shapeCall.runs, reordered[EmittedBefore(segs, k) + 1])

\* C23 witness: two runs, one of them visited twice by the permutation, so
\* that there are more segments than runs
C23_Witness ==
    /\ shapeCall.n = 1
    /\ Len(shapeCall.runs) = 2
    /\ Len(shapeCall.segments) = 3
    /\ \E k \in 1..3 : Len(shapeCall.segments[k].text) = 1 /\ Len(shapeCall.text) = 3

(***************************************************************************)
(* Termination, checked under SpecFit.                                     *)
(***************************************************************************)
SearchRunning == search.pc \in {"loop", "flowing", "final"}

NoDuplicates(s) == \A j, k \in 1..Len(s) : j # k => s[j] # s[k]

\* C21: flow() terminates after consuming each word at most once, and the
\* font-fit binary search terminates, probing each candidate size at most once
\* before the single final re-flow.  A flow that ends by the exception of an
\* empty line ends the callback with it.
C21_Termination ==
    /\ (flowFrame.pc = "loop") ~> (flowFrame.pc \in {"returned", "thrown"})
    /\ [][flowFrame.pc = "loop" /\ flowFrame'.pc = "loop"
            => flowFrame'.i = flowFrame.i + 1 /\ flowFrame'.i <= Len(words)]_vars
    /\ SearchRunning ~> (search.pc = "done" \/ pc = "thrown")
    /\ [](SearchRunning \/ search.pc = "done" =>
            /\ NoDuplicates(search.probeLog)
            /\ search.reflows <= 1
            /\ (search.pc \in {"final", "done"} <=> search.reflows = 1))
    /\ [][search.pc \in {"final", "done"} =>
            search'.probeLog = search.probeLog /\ search'.reflows = 1]_vars

\* C21 witness: a callback that returned after several probes, the last flow
\* having consumed all of MaxWords words
C21_Witness ==
    /\ search.pc = "done"
    /\ Len(search.probeLog) >= 5
    /\ Len(words) = MaxWords
    /\ flowFrame.i = Len(words)

====
